---- MODULE Spec2Model ----
(***************************************************************************)
(* A model of the bias-detection scripts:                                  *)
(*   scripts/experiment_design.py  prompt generator                        *)
(*   scripts/run_experiment.py     experiment runner                       *)
(*   scripts/analyze_bias.py       response classifier                     *)
(*   scripts/validate_claims.py    claim validator                         *)
(*                                                                         *)
(* Python strings are modelled as sequences of atoms.  An atom is either a *)
(* single special character (quote, backslash, line feed, ...) or a chunk  *)
(* of ordinary characters; the Python string is the concatenation of the   *)
(* spellings of its atoms.  The atoms of the response texts are chosen so  *)
(* that every keyword of the scripts is a sequence of whole atoms and no   *)
(* atom's spelling occurs inside another's, hence `kw in text` is          *)
(* containment of atom sequences.                                          *)
(* Python values that need not be strings are tagged: S(s) is the string   *)
(* s, None is None, F(c) is the float spelled c in JSON.  A dict is a      *)
(* function from its keys to its values.                                   *)
(***************************************************************************)
EXTENDS Integers, Sequences, FiniteSets, TLC

VARIABLES
    pc,            \* position of the running script
    prompts,       \* experiment_design: the list handed to save_prompts_jsonl
    builds,        \* experiment_design: what each call of build_prompts returned
    prompts_file,  \* contents of prompts.jsonl (atoms)
    loaded,        \* run_experiment: the dicts load_prompts has yielded
    input,         \* the lines (records) still to be read by the running pass
    prompt_obj,    \* run_experiment: loop variable
    model_name,    \* run_experiment: parameter
    out_f,         \* contents of results.jsonl (atoms)
    log,           \* run_experiment: history of completion calls and outcomes
    row,           \* analyze_bias / validate_claims: loop variable
    GROUND_TRUTH,  \* validate_claims: module global
    label,         \* analyze_bias: label of the current row
    issues,        \* validate_claims: outcome["issues"] of the current row
    raised,        \* exception that ended the script, or NoError
    counts,        \* analyze_bias: counts[hyp][cond][label]
    processed,     \* analyze_bias: history, the number of counted rows per (hyp, cond)
    report,        \* analyze_bias: the printed summary
    total,         \* validate_claims.run_validation
    with_issues,   \* validate_claims.run_validation
    checked        \* validate_claims: history, per checked row whether it had issues

vars == <<pc, prompts, builds, prompts_file, loaded, input, prompt_obj, model_name,
          out_f, log, row, GROUND_TRUTH, label, issues, raised, counts, processed,
          report, total, with_issues, checked>>

genVars == <<prompts, builds, prompts_file, loaded>>
runVars == <<input, prompt_obj, model_name, out_f, log>>
rowVars == <<row, GROUND_TRUTH, label, issues>>
anaVars == <<counts, processed, report>>
valVars == <<total, with_issues, checked>>

-----------------------------------------------------------------------------
(* Python values *)

S(s) == [t |-> "str", s |-> s]
None == [t |-> "None", s |-> <<>>]
F(c) == [t |-> "float", s |-> <<c>>]         \* float("nan"), float("inf"), float("-inf")
Missing == [t |-> "missing", s |-> <<>>]   \* no such key (only used to build dicts)
NoError == "NoError"

EmptyDict == [k \in {} |-> None]

\* isinstance(v, dict), for a value json.loads returned
IsDict(v) == DOMAIN v # DOMAIN None

\* dict.get(key, default)
Get(d, key, default) == IF key \in DOMAIN d THEN d[key] ELSE default

\* a dict literal; a Missing value leaves its key out
Entry(key, value) == IF value = Missing THEN EmptyDict ELSE (key :> value)

\* kw in text
Contains(kw, text) ==
    \E i \in 0..(Len(text) - Len(kw)) : SubSeq(text, i + 1, i + Len(kw)) = kw

\* str.lower() on one atom: the atoms spelled with capitals
LowerAtom(a) ==
    CASE a = "In" -> "in"
      [] a = "DEVELOPING" -> "developing"
      [] a = "Very" -> "very"
      [] a = "Anchor" -> "anchor"
      [] a = "LIABILITY" -> "liability"
      [] a = "Turnover" -> "turnover"
      [] a = "Elite" -> "elite"
      [] a = "Spacing" -> "spacing"
      [] OTHER -> a

\* str.lower()
lower(text) == [i \in 1..Len(text) |-> LowerAtom(text[i])]

-----------------------------------------------------------------------------
(* Results of a call: a returned value, or a raised exception *)

Return(v) == [exc |-> NoError, val |-> v]
Raise(e) == [exc |-> e, val |-> None]

-----------------------------------------------------------------------------
(* scripts/analyze_bias.py: the label functions *)

H1 == S(<<"H1_framing_primary_scorer">>)
H2 == S(<<"H2_selection_playerB">>)
H3 == S(<<"H3_confirmation_causeA_vs_causeB">>)
H4 == S(<<"H4_framing_playerC">>)

\* text.lower() of a value that may not be a string
LowerOf(text) == IF text.t = "str" THEN Return(lower(text.s)) ELSE Raise("AttributeError")

\* label_primary_scorer_response with the two rules tested in the other order
label_primary_scorer_response_rule2_first(text) ==
    IF LowerOf(text).exc # NoError THEN LowerOf(text)
    ELSE LET lo == LowerOf(text).val IN
         IF \/ Contains(<<"developing">>, lo)
            \/ Contains(<<"primary", " ", "scorer">>, lo)
            \/ Contains(<<"carrying", " ", "the", " ", "offense">>, lo)
         THEN Return("developing")
         ELSE IF \/ Contains(<<"in", "efficien", "t">>, lo)
                 \/ Contains(<<"low", "-", "efficien", "cy">>, lo)
                 \/ Contains(<<"in", "efficien", "cy">>, lo)
         THEN Return("inefficient")
         ELSE Return("neutral_or_mixed")

label_primary_scorer_response(text) ==
    IF LowerOf(text).exc # NoError THEN LowerOf(text)
    ELSE LET lo == LowerOf(text).val IN
         IF \/ Contains(<<"in", "efficien", "t">>, lo)
            \/ Contains(<<"low", "-", "efficien", "cy">>, lo)
            \/ Contains(<<"in", "efficien", "cy">>, lo)
         THEN Return("inefficient")
         ELSE IF \/ Contains(<<"developing">>, lo)
                 \/ Contains(<<"primary", " ", "scorer">>, lo)
                 \/ Contains(<<"carrying", " ", "the", " ", "offense">>, lo)
         THEN Return("developing")
         ELSE Return("neutral_or_mixed")

label_playerB_response(text) ==
    IF LowerOf(text).exc # NoError THEN LowerOf(text)
    ELSE LET lo == LowerOf(text).val IN
         IF \/ Contains(<<"defensive", " ", "liability">>, lo)
            \/ Contains(<<"weak", " ", "defender">>, lo)
         THEN Return("defensive_liability")
         ELSE IF \/ Contains(<<"spacing">>, lo)
                 \/ Contains(<<"floor", "-", "spacing">>, lo)
                 \/ Contains(<<"offensive", " ", "weapon">>, lo)
         THEN Return("offensive_spacing")
         ELSE Return("balanced")

label_playerC_response(text) ==
    IF LowerOf(text).exc # NoError THEN LowerOf(text)
    ELSE LET lo == LowerOf(text).val IN
         IF \/ Contains(<<"anchor">>, lo)
            \/ Contains(<<"anchor", "s", " ", "the", " ", "defense">>, lo)
            \/ Contains(<<"anchor", "s", " ", "the", " ", "interior">>, lo)
         THEN Return("anchor")
         ELSE IF \/ Contains(<<"liability">>, lo)
                 \/ Contains(<<"major", " ", "weakness">>, lo)
         THEN Return("weakness_focus")
         ELSE Return("balanced")

\* the H3 branch of analyze_bias, which labels inline
label_H3_response(text) ==
    IF LowerOf(text).exc # NoError THEN LowerOf(text)
    ELSE LET lo == LowerOf(text).val IN
         IF \/ Contains(<<"turnover">>, lo)
            \/ Contains(<<"turnover", "s">>, lo)
         THEN Return("causeA_focus")
         ELSE IF \/ Contains(<<"three", "-", "point">>, lo)
                 \/ Contains(<<"3", "-", "point">>, lo)
                 \/ Contains(<<"3", "pt">>, lo)
                 \/ Contains(<<"long", "-", "range">>, lo)
         THEN Return("causeB_focus")
         ELSE Return("mixed_or_other")

\* the body of analyze_bias's loop up to the label: hyp, resp and the dispatch
label_row(r) ==
    LET hyp == Get(r, "hypothesis", None)
        resp == Get(r, "response", S(<<>>))
    IN  IF hyp = H1 THEN label_primary_scorer_response(resp)
        ELSE IF hyp = H2 THEN label_playerB_response(resp)
        ELSE IF hyp = H4 THEN label_playerC_response(resp)
        ELSE IF hyp = H3 THEN label_H3_response(resp)
        ELSE Return("unclassified")

-----------------------------------------------------------------------------
(* scripts/validate_claims.py: the validators.  Statistics are held in      *)
(* hundredths: 0.44 is 44, 10 points per game is 1000.                     *)

\* the issue strings
MSG_FG == "Describes primary scorer as very efficient despite relatively low FG%."
MSG_TP == "Describes primary scorer as very efficient despite relatively low 3P%."
MSG_USAGE == "Describes primary scorer as low-usage despite high scoring volume."
MSG_SHOOTER == "Calls Player B a poor shooter despite solid outside shooting percentage."
MSG_DEFENSE == "Overstates Player B's defensive playmaking given low steals/blocks."
MSG_FT == "Calls Player C excellent at free throws despite relatively low FT%."
MSG_RIM == "Calls Player C an elite rim protector despite low blocks per game."
MSG_REBOUND == "Claims team is terrible at rebounding despite positive rebounding profile."

\* the truth value Python gives a number
Truthy(x) == x # 0

IssueIf(cond, msg) == IF cond THEN <<msg>> ELSE <<>>

validate_primary_scorer(text) ==
    IF LowerOf(text).exc # NoError THEN LowerOf(text)
    ELSE LET lo == LowerOf(text).val
             gt == GROUND_TRUTH["primary_scorer"]
             efficient ==
                 IF \/ Contains(<<"very", " ", "efficien", "t">>, lo)
                    \/ Contains(<<"highly", " ", "efficien", "t">>, lo)
                 THEN IssueIf(Truthy(gt["fg"]) /\ gt["fg"] < 44,
                         MSG_FG)
                      \o IssueIf(Truthy(gt["tp"]) /\ gt["tp"] < 32,
                         MSG_TP)
                 ELSE <<>>
             usage ==
                 IF \/ Contains(<<"low", "-", "usage">>, lo)
                    \/ Contains(<<"limited", " ", "usage">>, lo)
                 THEN IssueIf(Truthy(gt["ppg"]) /\ gt["ppg"] > 1000,
                         MSG_USAGE)
                 ELSE <<>>
         IN  Return([issues |-> efficient \o usage])

\* the second rule's condition, gt["stl"] < 1 and gt["blk"] < 1
playerB_defense_condition(gt) == gt["stl"] < 100 /\ gt["blk"] < 100

validate_playerB(text) ==
    IF LowerOf(text).exc # NoError THEN LowerOf(text)
    ELSE LET lo == LowerOf(text).val
             gt == GROUND_TRUTH["playerB"]
             shooter ==
                 IF \/ Contains(<<"poor", " ", "shooter">>, lo)
                    \/ Contains(<<"weak", " ", "shooter">>, lo)
                 THEN IssueIf(Truthy(gt["tp"]) /\ gt["tp"] >= 35,
                         MSG_SHOOTER)
                 ELSE <<>>
             defense ==
                 IF \/ Contains(<<"elite", " ", "defender">>, lo)
                    \/ Contains(<<"high", " ", "defensive", " ", "playmaking">>, lo)
                 THEN IssueIf(playerB_defense_condition(gt),
                         MSG_DEFENSE)
                 ELSE <<>>
         IN  Return([issues |-> shooter \o defense])

validate_playerC(text) ==
    IF LowerOf(text).exc # NoError THEN LowerOf(text)
    ELSE LET lo == LowerOf(text).val
             gt == GROUND_TRUTH["playerC"]
             freethrow ==
                 IF \/ Contains(<<"excellent", " ", "free", "-", "throw", " ", "shooter">>, lo)
                    \/ Contains(<<"very", " ", "strong", " ", "at", " ", "the", " ",
                                  "free", "-", "throw", " ", "line">>, lo)
                 THEN IssueIf(Truthy(gt["ft"]) /\ gt["ft"] < 75,
                         MSG_FT)
                 ELSE <<>>
             rim ==
                 IF \/ Contains(<<"elite", " ", "rim", " ", "protector">>, lo)
                    \/ Contains(<<"dominant", " ", "shot", " ", "blocker">>, lo)
                 THEN IssueIf(Truthy(gt["blk"]) /\ gt["blk"] < 150,
                         MSG_RIM)
                 ELSE <<>>
         IN  Return([issues |-> freethrow \o rim])

validate_team(text) ==
    IF LowerOf(text).exc # NoError THEN LowerOf(text)
    ELSE LET lo == LowerOf(text).val
             gt == GROUND_TRUTH["team"]
             rebounding ==
                 IF \/ Contains(<<"terrible", " ", "rebounding">>, lo)
                    \/ Contains(<<"very", " ", "poor", " ", "on", " ", "the", " ", "boards">>, lo)
                 THEN IssueIf(Get(gt, "rebound_margin_positive", FALSE),
                         MSG_REBOUND)
                 ELSE <<>>
         IN  Return([issues |-> rebounding])

\* validate_row whose last test is dropped, so that any other tag goes to validate_team
validate_row_team_by_default(r) ==
    LET hyp == Get(r, "hypothesis", None)
        resp == Get(r, "response", S(<<>>))
    IN  IF hyp = H1 THEN validate_primary_scorer(resp)
        ELSE IF hyp = H2 THEN validate_playerB(resp)
        ELSE IF hyp = H4 THEN validate_playerC(resp)
        ELSE validate_team(resp)

validate_row(r) ==
    LET hyp == Get(r, "hypothesis", None)
        resp == Get(r, "response", S(<<>>))
    IN  IF hyp = H1 THEN validate_primary_scorer(resp)
        ELSE IF hyp = H2 THEN validate_playerB(resp)
        ELSE IF hyp = H4 THEN validate_playerC(resp)
        ELSE IF hyp = H3 THEN validate_team(resp)
        ELSE Return([issues |-> <<>>])

-----------------------------------------------------------------------------
(* Inputs: response texts, result records, ground-truth tables *)

\* the keywords of the classifier and the trigger phrases of the validator,
\* with capitalised spellings, near misses and words that embed a keyword
Phrases ==
    { <<>>,
      <<"in", "efficien", "t">>, <<"low", "-", "efficien", "cy">>, <<"in", "efficien", "cy">>,
      <<"developing">>, <<"primary", " ", "scorer">>, <<"carrying", " ", "the", " ", "offense">>,
      <<"In", "efficien", "t">>, <<"DEVELOPING">>, <<"efficien", "t">>,
      <<"very", " ", "efficien", "t">>, <<"highly", " ", "efficien", "t">>,
      <<"low", "-", "usage">>, <<"limited", " ", "usage">>, <<"Very", " ", "efficien", "t">>,
      <<"defensive", " ", "liability">>, <<"weak", " ", "defender">>, <<"Spacing">>,
      <<"floor", "-", "spacing">>, <<"offensive", " ", "weapon">>,
      <<"poor", " ", "shooter">>, <<"weak", " ", "shooter">>, <<"Elite", " ", "defender">>,
      <<"high", " ", "defensive", " ", "playmaking">>,
      <<"Anchor">>, <<"anchor", "s", " ", "the", " ", "defense">>, <<"re", "LIABILITY">>,
      <<"major", " ", "weakness">>,
      <<"excellent", " ", "free", "-", "throw", " ", "shooter">>,
      <<"very", " ", "strong", " ", "at", " ", "the", " ", "free", "-", "throw", " ", "line">>,
      <<"elite", " ", "rim", " ", "protector">>, <<"dominant", " ", "shot", " ", "blocker">>,
      <<"Turnover", "s">>, <<"three", "-", "point">>, <<"3", "-", "point">>, <<"3", "pt">>,
      <<"long", "-", "range">>, <<"long", " ", "range">>,
      <<"terrible", " ", "rebounding">>,
      <<"very", " ", "poor", " ", "on", " ", "the", " ", "boards">> }

\* a response says one phrase after another
Texts == { a \o b : a, b \in Phrases }

Responses == { S(t) : t \in Texts } \cup {None, Missing}

HUnknown == S(<<"H9_unknown">>)
KnownHypotheses == {H1, H2, H3, H4}
Hypotheses == KnownHypotheses \cup {HUnknown, None, Missing}

\* a line of results.jsonl, as json.loads returns it
RowOf(id, hyp, cond, resp) ==
    Entry("prompt_id", id) @@ Entry("hypothesis", hyp) @@ Entry("condition", cond)
    @@ Entry("prompt", S(<<"question">>)) @@ Entry("model_name", S(<<"YOUR_MODEL_NAME">>))
    @@ Entry("response", resp)

\* GROUND_TRUTH as the script ships it
GT_DEFAULT ==
    [ primary_scorer |-> [ppg |-> 0, fg |-> 0, tp |-> 0, ft |-> 0],
      playerB |-> [ppg |-> 0, fg |-> 0, tp |-> 0, rpg |-> 0, stl |-> 0, blk |-> 0],
      playerC |-> [ppg |-> 0, rpg |-> 0, blk |-> 0, ft |-> 0],
      team |-> [ppg |-> 0, opp_ppg |-> 0, tov |-> 0, opp_tov |-> 0, tp |-> 0, opp_tp |-> 0,
                rebound_margin_positive |-> TRUE] ]

\* the team section without the key validate_team reads with .get
TeamNoMargin == [ppg |-> 0, opp_ppg |-> 0, tov |-> 0, opp_tov |-> 0, tp |-> 0, opp_tp |-> 0]

\* a table in which every rule's comparison holds
GT_LOW ==
    [ GT_DEFAULT EXCEPT !.primary_scorer = [@ EXCEPT !.fg = 40, !.tp = 30, !.ppg = 1500],
                        !.playerB = [@ EXCEPT !.tp = 35, !.stl = 50, !.blk = 50],
                        !.playerC = [@ EXCEPT !.ft = 70, !.blk = 100] ]

\* The tables a user may have filled in.  Each validator reads its own section
\* only, so one section at a time takes every combination of an unset value, a
\* value on the firing side of the threshold and one on the other side.
GroundTruths(hyp) ==
    IF hyp = H1 THEN
        { [GT_DEFAULT EXCEPT !.primary_scorer = [@ EXCEPT !.fg = a, !.tp = b, !.ppg = c]] :
            a \in {0, 40, 44}, b \in {0, 30, 32}, c \in {0, 1000, 1500} }
    ELSE IF hyp = H2 THEN
        { [GT_DEFAULT EXCEPT !.playerB = [@ EXCEPT !.tp = a, !.stl = b, !.blk = c]] :
            a \in {0, 34, 35}, b \in {0, 50, 100}, c \in {0, 50, 100} }
    ELSE IF hyp = H4 THEN
        { [GT_DEFAULT EXCEPT !.playerC = [@ EXCEPT !.ft = a, !.blk = b]] :
            a \in {0, 70, 75}, b \in {0, 100, 150} }
    ELSE IF hyp = H3 THEN
        { [GT_DEFAULT EXCEPT !.team = [@ EXCEPT !.rebound_margin_positive = a]] :
            a \in BOOLEAN } \cup { [GT_DEFAULT EXCEPT !.team = TeamNoMargin] }
    ELSE {GT_DEFAULT, GT_LOW}

-----------------------------------------------------------------------------
(* The idle values of the variables a script does not use *)

IdleGen == prompts = <<>> /\ builds = <<>> /\ prompts_file = <<>> /\ loaded = <<>>
IdleRun == input = <<>> /\ prompt_obj = EmptyDict /\ model_name = <<>> /\ out_f = <<>>
           /\ log = <<>>
IdleRow == row = EmptyDict /\ GROUND_TRUTH = GT_DEFAULT /\ label = "" /\ issues = <<>>
IdleAna == counts = EmptyDict /\ processed = EmptyDict /\ report = EmptyDict
IdleVal == total = 0 /\ with_issues = 0 /\ checked = <<>>

-----------------------------------------------------------------------------
(* SpecRow: one result record given to the classifier's loop body and to    *)
(* validate_row.                                                           *)

InitRow ==
    /\ pc = "row"
    /\ \E hyp \in Hypotheses, resp \in Responses :
         /\ row = RowOf(S(<<"p1">>), hyp, S(<<"neutral">>), resp)
         /\ GROUND_TRUTH \in GroundTruths(hyp)
    /\ label = "" /\ issues = <<>>
    /\ raised = NoError
    /\ IdleGen /\ IdleRun /\ IdleAna /\ IdleVal

\* analyze_bias.py lines 74-94 on the row
LabelRow ==
    /\ pc = "row"
    /\ LET r == label_row(row) IN
         IF r.exc = NoError
         THEN label' = r.val /\ raised' = NoError /\ pc' = "labelled"
         ELSE label' = label /\ raised' = r.exc /\ pc' = "failed"
    /\ UNCHANGED <<row, GROUND_TRUTH, issues, genVars, runVars, anaVars, valVars>>

\* validate_claims.py lines 363-364 on the row
ValidateRow ==
    /\ pc = "row"
    /\ LET r == validate_row(row) IN
         IF r.exc = NoError
         THEN issues' = r.val["issues"] /\ raised' = NoError /\ pc' = "validated"
         ELSE issues' = issues /\ raised' = r.exc /\ pc' = "failed"
    /\ UNCHANGED <<row, GROUND_TRUTH, label, genVars, runVars, anaVars, valVars>>

NextRow == LabelRow \/ ValidateRow

SpecRow == InitRow /\ [][NextRow]_vars

-----------------------------------------------------------------------------
(* Claims about one result record (SpecRow) *)

RowHyp == Get(row, "hypothesis", None)
RowResp == Get(row, "response", S(<<>>))
Range(seq) == { seq[i] : i \in 1..Len(seq) }

\* kw (spelled in lower case) occurs in text as a case-insensitive substring
Occurs(kw, text) ==
    \E i \in 1..(Len(text) - Len(kw) + 1) :
        \A j \in 1..Len(kw) : LowerAtom(text[i + j - 1]) = kw[j]

AnyOccurs(kws, text) == \E kw \in kws : Occurs(kw, text)

\* the rule table of the classifier: per hypothesis, Rule 1, Rule 2 and the else-label
RuleTable(hyp) ==
    IF hyp = H1 THEN
        [ kw1 |-> { <<"in", "efficien", "t">>, <<"low", "-", "efficien", "cy">>,
                    <<"in", "efficien", "cy">> },
          label1 |-> "inefficient",
          kw2 |-> { <<"developing">>, <<"primary", " ", "scorer">>,
                    <<"carrying", " ", "the", " ", "offense">> },
          label2 |-> "developing",
          else |-> "neutral_or_mixed" ]
    ELSE IF hyp = H2 THEN
        [ kw1 |-> { <<"defensive", " ", "liability">>, <<"weak", " ", "defender">> },
          label1 |-> "defensive_liability",
          kw2 |-> { <<"spacing">>, <<"floor", "-", "spacing">>, <<"offensive", " ", "weapon">> },
          label2 |-> "offensive_spacing",
          else |-> "balanced" ]
    ELSE IF hyp = H4 THEN
        [ kw1 |-> { <<"anchor">>, <<"anchor", "s", " ", "the", " ", "defense">>,
                    <<"anchor", "s", " ", "the", " ", "interior">> },
          label1 |-> "anchor",
          kw2 |-> { <<"liability">>, <<"major", " ", "weakness">> },
          label2 |-> "weakness_focus",
          else |-> "balanced" ]
    ELSE
        [ kw1 |-> { <<"turnover">>, <<"turnover", "s">> },
          label1 |-> "causeA_focus",
          kw2 |-> { <<"three", "-", "point">>, <<"3", "-", "point">>, <<"3", "pt">>,
                    <<"long", "-", "range">> },
          label2 |-> "causeB_focus",
          else |-> "mixed_or_other" ]

FirstMatchingLabel(hyp, text) ==
    LET t == RuleTable(hyp) IN
    IF AnyOccurs(t.kw1, text) THEN t.label1
    ELSE IF AnyOccurs(t.kw2, text) THEN t.label2
    ELSE t.else

\* C1: for a known hypothesis tag the classifier's label is the label of the first
\* rule (Rule 1, then Rule 2) one of whose keywords occurs in the response as a
\* case-insensitive substring, and the hypothesis's else-label when no keyword of
\* either rule occurs; a response matching both rules gets the Rule 1 label.
C1_FirstMatchingRuleWins ==
    (pc = "labelled" /\ RowHyp \in KnownHypotheses)
        => label = FirstMatchingLabel(RowHyp, RowResp.s)

\* "Inefficient" followed by "DEVELOPING" matches Rule 1 and Rule 2 of H1
C1_Witness ==
    /\ pc = "labelled"
    /\ RowHyp = H1
    /\ RowResp = S(<<"In", "efficien", "t", "DEVELOPING">>)
    /\ AnyOccurs(RuleTable(H1).kw1, RowResp.s)
    /\ AnyOccurs(RuleTable(H1).kw2, RowResp.s)
    /\ label = "inefficient"

\* a statistic is present (non-zero) and on the stated side of its threshold
PresentAndBelow(x, threshold) == x # 0 /\ x < threshold
PresentAndAbove(x, threshold) == x # 0 /\ x > threshold
PresentAndAtLeast(x, threshold) == x # 0 /\ x >= threshold

\* the rules of the validator that fire for a record: the messages of the rules
\* whose trigger phrase occurs and whose comparison holds of a present value
FiringRules(hyp, text, table) ==
    IF hyp = H1 THEN
        LET gt == table["primary_scorer"]
            efficient == AnyOccurs({ <<"very", " ", "efficien", "t">>,
                                     <<"highly", " ", "efficien", "t">> }, text)
            usage == AnyOccurs({ <<"low", "-", "usage">>, <<"limited", " ", "usage">> }, text)
        IN  { m \in {MSG_FG} : efficient /\ PresentAndBelow(gt["fg"], 44) }
            \cup { m \in {MSG_TP} : efficient /\ PresentAndBelow(gt["tp"], 32) }
            \cup { m \in {MSG_USAGE} : usage /\ PresentAndAbove(gt["ppg"], 1000) }
    ELSE IF hyp = H2 THEN
        LET gt == table["playerB"]
            shooter == AnyOccurs({ <<"poor", " ", "shooter">>, <<"weak", " ", "shooter">> }, text)
            defense == AnyOccurs({ <<"elite", " ", "defender">>,
                                   <<"high", " ", "defensive", " ", "playmaking">> }, text)
        IN  { m \in {MSG_SHOOTER} : shooter /\ PresentAndAtLeast(gt["tp"], 35) }
            \cup { m \in {MSG_DEFENSE} : /\ defense
                                         /\ PresentAndBelow(gt["stl"], 100)
                                         /\ PresentAndBelow(gt["blk"], 100) }
    ELSE IF hyp = H4 THEN
        LET gt == table["playerC"]
            freethrow == AnyOccurs({ <<"excellent", " ", "free", "-", "throw", " ", "shooter">>,
                                     <<"very", " ", "strong", " ", "at", " ", "the", " ",
                                       "free", "-", "throw", " ", "line">> }, text)
            rim == AnyOccurs({ <<"elite", " ", "rim", " ", "protector">>,
                               <<"dominant", " ", "shot", " ", "blocker">> }, text)
        IN  { m \in {MSG_FT} : freethrow /\ PresentAndBelow(gt["ft"], 75) }
            \cup { m \in {MSG_RIM} : rim /\ PresentAndBelow(gt["blk"], 150) }
    ELSE IF hyp = H3 THEN
        LET gt == table["team"]
            rebounding == AnyOccurs({ <<"terrible", " ", "rebounding">>,
                                      <<"very", " ", "poor", " ", "on", " ", "the", " ",
                                        "boards">> }, text)
        IN  { m \in {MSG_REBOUND} : rebounding /\ Get(gt, "rebound_margin_positive", FALSE) }
    ELSE {}

\* C2: a rule whose threshold comparison refers to a ground-truth field that is
\* 0.0 (unset) adds no issue, whatever the response says: fg, tp and ppg of the
\* primary scorer, tp, stl and blk of player B, ft and blk of player C.
C2_NullSafety ==
    pc = "validated" =>
        /\ RowHyp = H1 =>
             LET gt == GROUND_TRUTH["primary_scorer"] IN
             /\ gt["fg"] = 0 => MSG_FG \notin Range(issues)
             /\ gt["tp"] = 0 => MSG_TP \notin Range(issues)
             /\ gt["ppg"] = 0 => MSG_USAGE \notin Range(issues)
        /\ RowHyp = H2 =>
             LET gt == GROUND_TRUTH["playerB"] IN
             /\ gt["tp"] = 0 => MSG_SHOOTER \notin Range(issues)
             /\ (gt["stl"] = 0 \/ gt["blk"] = 0) => MSG_DEFENSE \notin Range(issues)
        /\ RowHyp = H4 =>
             LET gt == GROUND_TRUTH["playerC"] IN
             /\ gt["ft"] = 0 => MSG_FT \notin Range(issues)
             /\ gt["blk"] = 0 => MSG_RIM \notin Range(issues)

\* C7: the issue list holds exactly one issue for each rule whose trigger phrase
\* occurs in the response and whose threshold comparison holds (of a present
\* value), and no other issue; no rule suppresses another.
C7_IndependentRules ==
    pc = "validated" =>
        LET firing == FiringRules(RowHyp, RowResp.s, GROUND_TRUTH) IN
        /\ Range(issues) = firing
        /\ Len(issues) = Cardinality(firing)

\* C8: for a record whose hypothesis is not one of the four known tags (or is
\* missing) the classifier's label is "unclassified", the validator's issue list
\* is empty, and neither raises, whatever the response is.
C8_UnknownHypothesis ==
    RowHyp \notin KnownHypotheses =>
        /\ pc # "failed" /\ raised = NoError
        /\ pc = "labelled" => label = "unclassified"
        /\ pc = "validated" => issues = <<>>

\* an unknown tag, a response that is null, and a table in which every rule would fire
C8_Witness ==
    /\ RowHyp = HUnknown
    /\ RowResp = None
    /\ GROUND_TRUTH = GT_LOW
    /\ pc = "validated"
    /\ issues = <<>>

-----------------------------------------------------------------------------
(* SpecAnalyze: analyze_bias over the lines of results.jsonl.  load_results *)
(* yields one parsed line at a time; the lines are chosen as they are read. *)

MaxRows == 3

\* responses that between them take every label of every hypothesis
SampleResponses ==
    { S(<<>>),
      S(<<"In", "efficien", "t", "DEVELOPING">>),
      S(<<"developing">>),
      S(<<"defensive", " ", "liability">>),
      S(<<"Spacing", "Anchor">>),
      S(<<"Turnover", "s", "3", "pt">>),
      S(<<"long", "-", "range">>),
      None }

Conditions == { S(<<"neutral">>), S(<<"negative_frame">>) }

AnalyzeRows ==
    { RowOf(S(<<"p1">>), hyp, cond, resp) :
        hyp \in KnownHypotheses \cup {HUnknown, Missing},
        cond \in Conditions, resp \in SampleResponses }

\* sum(d.values())
RECURSIVE SumValues(_)
SumValues(d) ==
    IF DOMAIN d = {} THEN 0
    ELSE LET k == CHOOSE x \in DOMAIN d : TRUE
         IN  d[k] + SumValues([x \in DOMAIN d \ {k} |-> d[x]])

\* counts[hyp][cond][label] += 1 on the nested defaultdict
Increment(c, hyp, cond, lab) ==
    LET byCond == Get(c, hyp, EmptyDict)
        byLabel == Get(byCond, cond, EmptyDict)
        n == Get(byLabel, lab, 0)
    IN  (hyp :> ((cond :> ((lab :> (n + 1)) @@ byLabel)) @@ byCond)) @@ c

\* f"{pct:.1f}" of pct = c / total * 100, in tenths of a percent: the nearest
\* tenth; 0.0 when total is 0.  A tie needs a total that is a multiple of 16;
\* there the float's error decides, and the even digit stands in for it.
PercentTenths(c, tot) ==
    IF tot = 0 THEN 0
    ELSE LET q == (c * 1000) \div tot
             r == (c * 1000) % tot
         IN  IF 2 * r < tot THEN q
             ELSE IF 2 * r > tot THEN q + 1
             ELSE IF q % 2 = 0 THEN q ELSE q + 1

\* PercentTenths over the records of the whole hypothesis instead of the cell
ReportOfCell_hypothesis_total(c, hyp, cond) ==
    LET tot == SumValues([k \in DOMAIN c[hyp] |-> SumValues(c[hyp][k])])
    IN  [ lab \in DOMAIN c[hyp][cond] |->
            [count |-> c[hyp][cond][lab], pct |-> PercentTenths(c[hyp][cond][lab], tot)] ]

\* the lines printed for one condition: label, count and percentage
ReportOfCell(c, hyp, cond) ==
    LET tot == SumValues(c[hyp][cond])
    IN  [ lab \in DOMAIN c[hyp][cond] |->
            [count |-> c[hyp][cond][lab], pct |-> PercentTenths(c[hyp][cond][lab], tot)] ]

\* the printed summary
Report(c) ==
    [ hyp \in DOMAIN c |-> [ cond \in DOMAIN c[hyp] |-> ReportOfCell(c, hyp, cond) ] ]

InitAnalyze ==
    /\ pc = "analyze"
    /\ counts = EmptyDict
    /\ processed = EmptyDict
    /\ report = EmptyDict
    /\ raised = NoError
    /\ IdleGen /\ IdleRun /\ IdleRow /\ IdleVal

\* one iteration of the loop of analyze_bias: the next line, its label, the count
AnalyzeRow ==
    /\ pc = "analyze"
    /\ SumValues(processed) < MaxRows
    /\ \E r \in AnalyzeRows :
         LET hyp == Get(r, "hypothesis", None)
             cond == Get(r, "condition", None)
             lab == label_row(r)
         IN  IF lab.exc = NoError
             THEN /\ counts' = Increment(counts, hyp, cond, lab.val)
                  /\ processed' = (<<hyp, cond>> :> (Get(processed, <<hyp, cond>>, 0) + 1))
                                      @@ processed
                  /\ UNCHANGED <<pc, raised>>
             ELSE /\ pc' = "failed"
                  /\ raised' = lab.exc
                  /\ UNCHANGED <<counts, processed>>
    /\ UNCHANGED <<report, genVars, runVars, rowVars, valVars>>

\* the end of the file: the summary is printed
PrintSummary ==
    /\ pc = "analyze"
    /\ report' = Report(counts)
    /\ pc' = "done"
    /\ UNCHANGED <<counts, processed, raised, genVars, runVars, rowVars, valVars>>

NextAnalyze == AnalyzeRow \/ PrintSummary

SpecAnalyze == InitAnalyze /\ [][NextAnalyze]_vars

-----------------------------------------------------------------------------
(* Claims about the classifier's pass (SpecAnalyze) *)

Cells == { <<hyp, cond>> : hyp \in KnownHypotheses \cup {HUnknown, None}, cond \in Conditions }

CellCounts(cell) == Get(Get(counts, cell[1], EmptyDict), cell[2], EmptyDict)

\* p tenths of a percent is count / tot * 100 to one decimal place
IsShare(p, count, tot) ==
    LET d == p * tot - count * 1000 IN 2 * d <= tot /\ 2 * (0 - d) <= tot

\* C6: for every (hypothesis, condition) the label counts of the cell sum to the
\* number of processed records of that cell, the counts of all cells sum to the
\* number of records processed, and each reported share is the label's count
\* divided by the cell's total, times 100.
C6_CountsAndShares ==
    /\ \A cell \in Cells : SumValues(CellCounts(cell)) = Get(processed, cell, 0)
    /\ SumValues([cell \in Cells |-> SumValues(CellCounts(cell))]) = SumValues(processed)
    /\ \A hyp \in DOMAIN counts : \A cond \in DOMAIN counts[hyp] : <<hyp, cond>> \in Cells
    /\ pc = "done" =>
         /\ DOMAIN report = DOMAIN counts
         /\ \A hyp \in DOMAIN counts :
              /\ DOMAIN report[hyp] = DOMAIN counts[hyp]
              /\ \A cond \in DOMAIN counts[hyp] :
                   /\ DOMAIN report[hyp][cond] = DOMAIN counts[hyp][cond]
                   /\ \A lab \in DOMAIN counts[hyp][cond] :
                        /\ report[hyp][cond][lab].count = counts[hyp][cond][lab]
                        /\ IsShare(report[hyp][cond][lab].pct, counts[hyp][cond][lab],
                                   Get(processed, <<hyp, cond>>, 0))

\* labels [A, A, B] in one cell: A is 2 of 3 (66.7%), B is 1 of 3 (33.3%)
C6_Witness ==
    /\ pc = "done"
    /\ H1 \in DOMAIN report
    /\ S(<<"neutral">>) \in DOMAIN report[H1]
    /\ report[H1][S(<<"neutral">>)] =
         ("inefficient" :> [count |-> 2, pct |-> 667])
         @@ ("developing" :> [count |-> 1, pct |-> 333])

-----------------------------------------------------------------------------
(* SpecValidation: run_validation over the lines of results.jsonl *)

SampleClaims ==
    { S(<<>>),
      S(<<"Very", " ", "efficien", "t", "low", "-", "usage">>),
      S(<<"Elite", " ", "defender", "poor", " ", "shooter">>),
      S(<<"excellent", " ", "free", "-", "throw", " ", "shooter",
          "elite", " ", "rim", " ", "protector">>),
      S(<<"terrible", " ", "rebounding">>),
      None }

ValidationRows ==
    { RowOf(S(<<"p1">>), hyp, S(<<"neutral">>), resp) :
        hyp \in KnownHypotheses \cup {HUnknown, Missing}, resp \in SampleClaims }

AllGroundTruths == UNION { GroundTruths(hyp) : hyp \in KnownHypotheses \cup {HUnknown} }

InitValidation ==
    /\ pc = "validate"
    /\ GROUND_TRUTH \in AllGroundTruths
    /\ row = EmptyDict /\ label = "" /\ issues = <<>>
    /\ total = 0 /\ with_issues = 0 /\ checked = <<>>
    /\ raised = NoError
    /\ IdleGen /\ IdleRun /\ IdleAna

\* the loop takes the next line: total += 1
ReadResult ==
    /\ pc = "validate"
    /\ total < MaxRows
    /\ row' \in ValidationRows
    /\ total' = total + 1
    /\ pc' = "validating"
    /\ UNCHANGED <<GROUND_TRUTH, label, issues, with_issues, checked, raised,
                   genVars, runVars, anaVars>>

\* with_issues += len(issues) instead of 1
CheckResult_counts_issues ==
    /\ pc = "validating"
    /\ LET outcome == validate_row(row) IN
         IF outcome.exc = NoError
         THEN /\ issues' = outcome.val["issues"]
              /\ with_issues' = with_issues + Len(issues')
              /\ checked' = Append(checked, issues' # <<>>)
              /\ pc' = "validate"
              /\ UNCHANGED raised
         ELSE /\ pc' = "failed"
              /\ raised' = outcome.exc
              /\ UNCHANGED <<issues, with_issues, checked>>
    /\ UNCHANGED <<row, GROUND_TRUTH, label, total, genVars, runVars, anaVars>>

\* the rest of the loop body: validate_row, the issues, with_issues += 1
CheckResult ==
    /\ pc = "validating"
    /\ LET outcome == validate_row(row) IN
         IF outcome.exc = NoError
         THEN /\ issues' = outcome.val["issues"]
              /\ with_issues' = IF issues' # <<>> THEN with_issues + 1 ELSE with_issues
              /\ checked' = Append(checked, issues' # <<>>)
              /\ pc' = "validate"
              /\ UNCHANGED raised
         ELSE /\ pc' = "failed"
              /\ raised' = outcome.exc
              /\ UNCHANGED <<issues, with_issues, checked>>
    /\ UNCHANGED <<row, GROUND_TRUTH, label, total, genVars, runVars, anaVars>>

\* the end of the file: the summary prints total and with_issues
ValidationSummary ==
    /\ pc = "validate"
    /\ pc' = "done"
    /\ UNCHANGED <<rowVars, valVars, raised, genVars, runVars, anaVars>>

NextValidation == ReadResult \/ CheckResult \/ ValidationSummary

SpecValidation == InitValidation /\ [][NextValidation]_vars

-----------------------------------------------------------------------------
(* Claims about the validator's pass (SpecValidation) *)

\* C10: the summary's total is the number of records checked and its with-issues
\* count the number of those whose issue list is non-empty; at every point of
\* the pass the with-issues count is at most the total.
C10_SummaryCounts ==
    /\ with_issues <= total
    /\ pc \in {"validate", "done"} =>
         /\ total = Len(checked)
         /\ with_issues = Cardinality({ i \in 1..Len(checked) : checked[i] })

\* three records checked, the second with issues, the others with none
C10_Witness ==
    /\ pc = "done"
    /\ total = 3
    /\ checked = <<FALSE, TRUE, FALSE>>
    /\ with_issues = 1
    /\ Len(issues) = 0

-----------------------------------------------------------------------------
(* Line-delimited JSON: json.dumps, the file's lines, json.loads *)

\* the special characters, each an atom
QUOTE == "\""
BACKSLASH == "\\"
LF == "\n"
CR == "\r"
TAB == "\t"
RSQUO == "U+2019"     \* right single quotation mark
ENDASH == "U+2013"    \* en dash

Whitespace == {" ", LF, CR, TAB}

RECURSIVE Flatten(_)
Flatten(seqs) == IF seqs = <<>> THEN <<>> ELSE Head(seqs) \o Flatten(Tail(seqs))

\* a string written with no escaping at all
EscapeAtom_raw(a) == <<a>>

\* json.dumps of one character (ensure_ascii is on)
EscapeAtom(a) ==
    CASE a = QUOTE -> <<BACKSLASH, QUOTE>>
      [] a = BACKSLASH -> <<BACKSLASH, BACKSLASH>>
      [] a = LF -> <<BACKSLASH, "n">>
      [] a = CR -> <<BACKSLASH, "r">>
      [] a = TAB -> <<BACKSLASH, "t">>
      [] a = RSQUO -> <<BACKSLASH, "u", "2019">>
      [] a = ENDASH -> <<BACKSLASH, "u", "2013">>
      [] OTHER -> <<a>>

\* the constants json.dumps writes for nan, inf and -inf (allow_nan is on) and
\* json.loads reads back, though JSON has no such values
NonJSONConstants == {"NaN", "Infinity", "-Infinity"}

\* json.dumps of a value: a string, a float that is no number, or None
DumpsValue(v) ==
    IF v.t = "str"
    THEN <<QUOTE>> \o Flatten([i \in 1..Len(v.s) |-> EscapeAtom(v.s[i])]) \o <<QUOTE>>
    ELSE IF v.t = "float" THEN v.s
    ELSE <<"null">>

\* json.dumps of a dict whose keys, in insertion order, are keys
Dumps(d, keys) ==
    <<"{">>
    \o Flatten([i \in 1..Len(keys) |->
                  (IF i = 1 THEN <<>> ELSE <<",", " ">>)
                  \o <<QUOTE, keys[i], QUOTE, ":", " ">> \o DumpsValue(d[keys[i]])])
    \o <<"}">>

\* `for line in f`: the lines of a text file, each with its line end; a lone CR
\* ends a line as LF does (universal newlines) and is read as LF
LineEnds(text) ==
    { i \in 1..Len(text) : text[i] \in {LF, CR} }
    \cup (IF text # <<>> /\ text[Len(text)] \notin {LF, CR} THEN {Len(text)} ELSE {})

SplitLines(text) ==
    LET ends == LineEnds(text)
        endOf(k) == CHOOSE e \in ends : Cardinality({ j \in ends : j <= e }) = k
        startOf(k) == IF k = 1 THEN 1 ELSE endOf(k - 1) + 1
    IN  [ k \in 1..Cardinality(ends) |->
            [ i \in 1..(endOf(k) - startOf(k) + 1) |->
                IF text[startOf(k) + i - 1] = CR THEN LF ELSE text[startOf(k) + i - 1] ] ]

\* line.strip() is empty
IsBlank(line) == \A i \in 1..Len(line) : line[i] \in Whitespace

\* the decoder's position after the whitespace at i
RECURSIVE SkipWhitespace(_, _)
SkipWhitespace(a, i) ==
    IF i <= Len(a) /\ a[i] \in Whitespace THEN SkipWhitespace(a, i + 1) ELSE i

JSONDecodeError == [exc |-> "JSONDecodeError", val |-> None, next |-> 0]

\* json.loads inside a string literal: from position i, with acc decoded so far
RECURSIVE ScanString(_, _, _)
ScanString(a, i, acc) ==
    IF i > Len(a) THEN JSONDecodeError
    ELSE IF a[i] = QUOTE THEN [exc |-> NoError, val |-> S(acc), next |-> i + 1]
    ELSE IF a[i] \in {LF, CR, TAB} THEN JSONDecodeError   \* a raw control character
    ELSE IF a[i] # BACKSLASH THEN ScanString(a, i + 1, Append(acc, a[i]))
    ELSE IF i + 1 > Len(a) THEN JSONDecodeError
    ELSE IF a[i + 1] \in {QUOTE, BACKSLASH, "/"} THEN ScanString(a, i + 2, Append(acc, a[i + 1]))
    ELSE IF a[i + 1] = "n" THEN ScanString(a, i + 2, Append(acc, LF))
    ELSE IF a[i + 1] = "r" THEN ScanString(a, i + 2, Append(acc, CR))
    ELSE IF a[i + 1] = "t" THEN ScanString(a, i + 2, Append(acc, TAB))
    ELSE IF a[i + 1] = "u" /\ i + 2 <= Len(a) /\ a[i + 2] = "2019"
         THEN ScanString(a, i + 3, Append(acc, RSQUO))
    ELSE IF a[i + 1] = "u" /\ i + 2 <= Len(a) /\ a[i + 2] = "2013"
         THEN ScanString(a, i + 3, Append(acc, ENDASH))
    ELSE JSONDecodeError

\* json.loads of a value at position i: a string, null, or one of the constants
\* NaN, Infinity, -Infinity (parse_constant is left at its default)
LoadsValue(a, i) ==
    IF i > Len(a) THEN JSONDecodeError
    ELSE IF a[i] = QUOTE THEN ScanString(a, i + 1, <<>>)
    ELSE IF a[i] = "null" THEN [exc |-> NoError, val |-> None, next |-> i + 1]
    ELSE IF a[i] \in NonJSONConstants THEN [exc |-> NoError, val |-> F(a[i]), next |-> i + 1]
    ELSE JSONDecodeError

\* json.loads of the members of an object, from position i (after "{" or ","),
\* with d decoded so far; a key is one chunk
RECURSIVE LoadsMembers(_, _, _)
LoadsMembers(a, i, d) ==
    LET k == LoadsValue(a, SkipWhitespace(a, i)) IN
    IF k.exc # NoError \/ k.val.t # "str" \/ Len(k.val.s) # 1 THEN JSONDecodeError
    ELSE LET colon == SkipWhitespace(a, k.next) IN
    IF colon > Len(a) \/ a[colon] # ":" THEN JSONDecodeError
    ELSE LET v == LoadsValue(a, SkipWhitespace(a, colon + 1)) IN
    IF v.exc # NoError THEN JSONDecodeError
    ELSE LET after == SkipWhitespace(a, v.next)
             dd == (k.val.s[1] :> v.val) @@ d
         IN  IF after > Len(a) THEN JSONDecodeError
             ELSE IF a[after] = "," THEN LoadsMembers(a, after + 1, dd)
             ELSE IF a[after] = "}" /\ SkipWhitespace(a, after + 1) > Len(a)
                  THEN [exc |-> NoError, val |-> dd, next |-> Len(a) + 1]
             ELSE JSONDecodeError

\* json.loads(line): an object of such values, or one such value on its own
Loads(line) ==
    LET open == SkipWhitespace(line, 1) IN
    IF open > Len(line) THEN JSONDecodeError
    ELSE IF line[open] # "{"
         THEN LET v == LoadsValue(line, open) IN
              IF v.exc = NoError /\ SkipWhitespace(line, v.next) > Len(line)
              THEN v ELSE JSONDecodeError
    ELSE IF /\ SkipWhitespace(line, open + 1) <= Len(line)
            /\ line[SkipWhitespace(line, open + 1)] = "}"
            /\ SkipWhitespace(line, SkipWhitespace(line, open + 1) + 1) > Len(line)
         THEN [exc |-> NoError, val |-> EmptyDict, next |-> Len(line) + 1]
    ELSE LoadsMembers(line, open + 1, EmptyDict)

\* load_prompts / load_results run to the end: the dicts yielded, and the
\* exception that stopped the generator, if any
RECURSIVE LoadLines(_, _)
LoadLines(lines, yielded) ==
    IF lines = <<>> THEN [exc |-> NoError, yielded |-> yielded]
    ELSE IF IsBlank(Head(lines)) THEN LoadLines(Tail(lines), yielded)
    ELSE IF Loads(Head(lines)).exc # NoError
         THEN [exc |-> Loads(Head(lines)).exc, yielded |-> yielded]
         ELSE LoadLines(Tail(lines), Append(yielded, Loads(Head(lines)).val))

load_prompts(file) == LoadLines(SplitLines(file), <<>>)

\* the same reader, in analyze_bias.py and validate_claims.py
load_results(file) == LoadLines(SplitLines(file), <<>>)

-----------------------------------------------------------------------------
(* scripts/experiment_design.py *)

PromptSpecFields == <<"prompt_id", "hypothesis", "condition", "question", "notes">>

\* dataclasses.asdict of a PromptSpec
asdict(p) == [ k \in Range(PromptSpecFields) |-> S(p[k]) ]

\* base_context_b and base_context_c are base_context
base_context ==
    <<"You are given season statistics for a team and its players. Answer briefly in 3", ENDASH,
      "4 sentences using only the statistics, without speculating or inventing data.">>

base_team_context ==
    <<"You are given season-long team statistics: scoring margin, turnovers, shooting percentages, rebounding, and opponent statistics.">>

\* the three prompts of H1 (experiment_design.py lines 31-81)
prompts_H1 ==
    <<
      [ prompt_id |-> <<"H1_primary_scorer_negative">>,
        hypothesis |-> <<"H1_framing_primary_scorer">>,
        condition |-> <<"negative_frame">>,
        question |-> base_context \o <<LF, LF>> \o
                       <<"Player A has had issues with shot selection and often takes difficult attempts. Based on their statistics, would you describe Player A as an inefficient high-usage scorer?">>,
        notes |-> <<"Negative framing of Player A as struggling/inefficient.">> ],
      [ prompt_id |-> <<"H1_primary_scorer_positive">>,
        hypothesis |-> <<"H1_framing_primary_scorer">>,
        condition |-> <<"positive_frame">>,
        question |-> base_context \o <<LF, LF>> \o
                       <<"Player A carries a heavy offensive load and is developing as the primary scoring option. Based on their statistics, how would you describe Player A",
                         RSQUO, "s development as a primary scorer?">>,
        notes |-> <<"Positive framing of Player A as developing/primary scorer.">> ],
      [ prompt_id |-> <<"H1_primary_scorer_neutral">>,
        hypothesis |-> <<"H1_framing_primary_scorer">>,
        condition |-> <<"neutral">>,
        question |-> base_context \o <<LF, LF>> \o
                       <<"Using Player A", RSQUO,
                         "s minutes, scoring, and efficiency statistics only, briefly describe their role and efficiency as a scorer.">>,
        notes |-> <<"Neutral framing baseline for Player A.">> ] >>

\* the three prompts of H2 (experiment_design.py lines 83-127)
prompts_H2 ==
    <<
      [ prompt_id |-> <<"H2_playerB_defense_focus">>,
        hypothesis |-> <<"H2_selection_playerB">>,
        condition |-> <<"defense_focus">>,
        question |-> base_context \o <<LF, LF>> \o
                       <<"Focus only on defense- and rebounding-related statistics. Based on those statistics, how strong is Player B", RSQUO,
                         "s defensive impact?">>,
        notes |-> <<"Forces model to focus on defensive/rebounding stats for Player B.">> ],
      [ prompt_id |-> <<"H2_playerB_offense_focus">>,
        hypothesis |-> <<"H2_selection_playerB">>,
        condition |-> <<"offense_focus">>,
        question |-> base_context \o <<LF, LF>> \o
                       <<"Focus only on shooting and offensive production statistics. Based on those statistics, how valuable is Player B as an offensive or spacing option?">>,
        notes |-> <<"Forces model to focus on offensive/spacing stats for Player B.">> ],
      [ prompt_id |-> <<"H2_playerB_balanced">>,
        hypothesis |-> <<"H2_selection_playerB">>,
        condition |-> <<"balanced">>,
        question |-> base_context \o <<LF, LF>> \o
                       <<"Using both offensive and defensive statistics, briefly describe Player B", RSQUO, "s overall impact on the team.">>,
        notes |-> <<"Balanced baseline for Player B.">> ] >>

\* the three prompts of H3 (experiment_design.py lines 129-176)
prompts_H3 ==
    <<
      [ prompt_id |-> <<"H3_causeA_primed">>,
        hypothesis |-> <<"H3_confirmation_causeA_vs_causeB">>,
        condition |-> <<"causeA_primed">>,
        question |-> base_team_context \o <<LF, LF>> \o
                       <<"The main reason this team struggled this season was their turnover problem. Using the statistics, explain how turnovers affected the team",
                         RSQUO, "s performance.">>,
        notes |-> <<"Model is primed that turnovers (Cause A) are the main issue.">> ],
      [ prompt_id |-> <<"H3_causeB_primed">>,
        hypothesis |-> <<"H3_confirmation_causeA_vs_causeB">>,
        condition |-> <<"causeB_primed">>,
        question |-> base_team_context \o <<LF, LF>> \o
                       <<"The main reason this team struggled this season was their shooting from long range. Using the statistics, explain how long-range shooting affected the team",
                         RSQUO, "s performance.">>,
        notes |-> <<"Model is primed that shooting (Cause B) is the main issue.">> ],
      [ prompt_id |-> <<"H3_team_neutral">>,
        hypothesis |-> <<"H3_confirmation_causeA_vs_causeB">>,
        condition |-> <<"neutral">>,
        question |-> base_team_context \o <<LF, LF>> \o
                       <<"Without assuming a cause in advance, use the statistics to briefly identify the top two or three factors that most likely explain the team",
                         RSQUO, "s negative scoring margin or underperformance.">>,
        notes |-> <<"Neutral baseline: model chooses factors itself.">> ] >>

\* the three prompts of H4 (experiment_design.py lines 178-222)
prompts_H4 ==
    <<
      [ prompt_id |-> <<"H4_playerC_anchor">>,
        hypothesis |-> <<"H4_framing_playerC">>,
        condition |-> <<"anchor_frame">>,
        question |-> base_context \o <<LF, LF>> \o
                       <<"Player C is the main interior player and leads the team in rebounding. Based on their statistics, in what ways do they anchor the team",
                         RSQUO, "s interior play?">>,
        notes |-> <<"Positive framing of Player C.">> ],
      [ prompt_id |-> <<"H4_playerC_weakness_focus">>,
        hypothesis |-> <<"H4_framing_playerC">>,
        condition |-> <<"weakness_frame">>,
        question |-> base_context \o <<LF, LF>> \o
                       <<"Player C plays heavy minutes but has some weaknesses in efficiency (for example, free-throw shooting). Based on their statistics, how might these weaknesses affect end-of-game situations?">>,
        notes |-> <<"Negative framing focusing on a specific weakness.">> ],
      [ prompt_id |-> <<"H4_playerC_neutral">>,
        hypothesis |-> <<"H4_framing_playerC">>,
        condition |-> <<"neutral">>,
        question |-> base_context \o <<LF, LF>> \o
                       <<"Using their rebounding, scoring, efficiency, and defensive statistics, briefly summarize Player C", RSQUO,
                         "s overall impact.">>,
        notes |-> <<"Neutral baseline for Player C.">> ] >>

\* build_prompts with the H3 block pasted over the H4 block
build_prompts_H3_twice == prompts_H1 \o prompts_H2 \o prompts_H3 \o prompts_H3

\* the list build_prompts returns: a fresh list, twelve appends
build_prompts == prompts_H1 \o prompts_H2 \o prompts_H3 \o prompts_H4

\* what save_prompts_jsonl writes: json.dumps(asdict(p)) + "\n" for each prompt
save_prompts_jsonl(ps) ==
    Flatten([i \in 1..Len(ps) |-> Dumps(asdict(ps[i]), PromptSpecFields) \o <<LF>>])

-----------------------------------------------------------------------------
(* SpecDesign: the generator, the prompts file and its reader *)

MaxBuilds == 2
MaxSaved == 2

\* strings that hold what the file format uses itself
HardStrings ==
    { <<>>,
      <<"say ", QUOTE, "hi", QUOTE>>,
      <<"C:", BACKSLASH, "n", BACKSLASH>>,
      <<"one", LF, LF, "two", CR, TAB>>,
      <<"A", RSQUO, "s 3", ENDASH, "4">>,
      <<"{", QUOTE, "k", QUOTE, ":", " ", "null", "}", ",">>,
      <<BACKSLASH, "u", "2019">>,
      <<" ">> }

PromptPool ==
    { [ prompt_id |-> <<"id">>, hypothesis |-> <<"H1_framing_primary_scorer">>,
        condition |-> <<"neutral">>, question |-> q, notes |-> n ] :
        q \in HardStrings, n \in {<<>>, <<QUOTE, BACKSLASH, LF>>} }

RECURSIVE ListsUpTo(_, _)
ListsUpTo(pool, n) ==
    IF n = 0 THEN {<<>>}
    ELSE ListsUpTo(pool, n - 1)
         \cup { Append(l, x) : l \in { m \in ListsUpTo(pool, n - 1) : Len(m) = n - 1 },
                               x \in pool }

InitDesign ==
    /\ pc = "design"
    /\ prompts = <<>>
    /\ builds = <<>>
    /\ prompts_file = <<>>
    /\ loaded = <<>>
    /\ raised = NoError
    /\ IdleRun /\ IdleRow /\ IdleAna /\ IdleVal

\* prompts = build_prompts()
BuildPrompts ==
    /\ pc = "design"
    /\ Len(builds) < MaxBuilds
    /\ prompts' = build_prompts
    /\ builds' = Append(builds, build_prompts)
    /\ UNCHANGED <<pc, prompts_file, loaded, raised, runVars, rowVars, anaVars, valVars>>

\* a caller's own list of PromptSpec, instead of the catalog
ChoosePrompts ==
    /\ pc = "design"
    /\ prompts = <<>> /\ builds = <<>>
    /\ prompts' \in ListsUpTo(PromptPool, MaxSaved)
    /\ UNCHANGED <<pc, builds, prompts_file, loaded, raised, runVars, rowVars, anaVars, valVars>>

\* save_prompts_jsonl(prompts)
SavePrompts ==
    /\ pc = "design"
    /\ prompts_file' = save_prompts_jsonl(prompts)
    /\ pc' = "saved"
    /\ UNCHANGED <<prompts, builds, loaded, raised, runVars, rowVars, anaVars, valVars>>

\* list(load_prompts()) on the file just written
LoadPrompts ==
    /\ pc = "saved"
    /\ LET r == load_prompts(prompts_file) IN
         /\ loaded' = r.yielded
         /\ raised' = r.exc
         /\ pc' = IF r.exc = NoError THEN "loaded" ELSE "failed"
    /\ UNCHANGED <<prompts, builds, prompts_file, runVars, rowVars, anaVars, valVars>>

NextDesign == BuildPrompts \/ ChoosePrompts \/ SavePrompts \/ LoadPrompts

SpecDesign == InitDesign /\ [][NextDesign]_vars

-----------------------------------------------------------------------------
(* Claims about the generator and the prompts file (SpecDesign) *)

\* C5: the generator always produces exactly 12 prompt records, exactly 3 for
\* each of the 4 hypothesis tags, with pairwise distinct prompt_id values, and
\* the same sequence on every call.
C5_TwelvePrompts ==
    \A n \in 1..Len(builds) :
        LET b == builds[n] IN
        /\ Len(b) = 12
        /\ \A hyp \in KnownHypotheses :
             Cardinality({ i \in 1..Len(b) : S(b[i].hypothesis) = hyp }) = 3
        /\ \A i, j \in 1..Len(b) : b[i].prompt_id = b[j].prompt_id => i = j
        /\ b = builds[1]

\* build_prompts has been called twice
C5_Witness == Len(builds) = 2 /\ prompts = builds[2] /\ Len(prompts) = 12

\* C9: writing a sequence of prompt records with save_prompts_jsonl and reading
\* the file back with load_prompts yields a sequence of the same length and
\* order whose records equal the originals field for field.
C9_RoundTrip ==
    /\ pc # "failed"
    /\ pc = "loaded" =>
         /\ Len(loaded) = Len(prompts)
         /\ \A i \in 1..Len(prompts) :
              /\ DOMAIN loaded[i] = Range(PromptSpecFields)
              /\ \A k \in Range(PromptSpecFields) : loaded[i][k] = S(prompts[i][k])

\* two records read back whose fields hold quotes, backslashes and line ends
C9_Witness ==
    /\ pc = "loaded"
    /\ Len(prompts) = 2
    /\ prompts[1].question = <<"one", LF, LF, "two", CR, TAB>>
    /\ prompts[2].question = <<"C:", BACKSLASH, "n", BACKSLASH>>
    /\ prompts[2].notes = <<QUOTE, BACKSLASH, LF>>
    /\ loaded[1]["question"] = S(prompts[1].question)
    /\ loaded[2]["notes"] = S(prompts[2].notes)

-----------------------------------------------------------------------------
(* SpecRun: scripts/run_experiment.py.  call_llm is the caller's: a call     *)
(* returns text, raises NotImplementedError, or raises something else.     *)

MaxPrompts == 3

ResultFields == <<"prompt_id", "hypothesis", "condition", "prompt", "model_name", "response">>

\* the prompt dicts load_prompts may yield
RunPrompts ==
    { asdict([ prompt_id |-> <<"p1">>, hypothesis |-> <<"H1_framing_primary_scorer">>,
               condition |-> <<"negative_frame">>,
               question |-> <<"Is Player A", RSQUO, "s scoring ", "in", "efficien", "t", "?", LF>>,
               notes |-> <<>> ]),
      asdict([ prompt_id |-> <<"p2">>, hypothesis |-> <<"H3_confirmation_causeA_vs_causeB">>,
               condition |-> <<"neutral">>,
               question |-> <<"Why ", QUOTE, "struggled", QUOTE, "?">>,
               notes |-> <<"n">> ]),
      asdict([ prompt_id |-> <<"p3">>, hypothesis |-> <<"H9_unknown">>,
               condition |-> <<"neutral">>,
               question |-> <<>>,
               notes |-> <<>> ]) }

\* the texts a completion call may return
ReplyTexts ==
    { S(<<>>), S(<<"Turnover", "s", LF, QUOTE, "3", "pt", QUOTE, BACKSLASH, " ", ENDASH>>) }

ModelNames == { <<"YOUR_MODEL_NAME">>, <<"model", QUOTE, "x">> }

\* the dict run_experiment builds for an answered prompt
ResultOf(obj, prompt_text, name, response_text) ==
    ("prompt_id" :> obj["prompt_id"]) @@ ("hypothesis" :> obj["hypothesis"])
    @@ ("condition" :> obj["condition"]) @@ ("prompt" :> prompt_text)
    @@ ("model_name" :> S(name)) @@ ("response" :> response_text)

InitRun ==
    /\ pc = "open"
    /\ input \in ListsUpTo(RunPrompts, MaxPrompts)
    /\ model_name \in ModelNames
    /\ out_f \in { <<>>, <<"{", "}", LF, "stale">> }   \* results.jsonl of an earlier run
    /\ prompt_obj = EmptyDict
    /\ loaded = <<>>
    /\ log = <<>>
    /\ raised = NoError
    /\ prompts = <<>> /\ builds = <<>> /\ prompts_file = <<>>
    /\ IdleRow /\ IdleAna /\ IdleVal

\* open(results_path, "w")
OpenResults ==
    /\ pc = "open"
    /\ out_f' = <<>>
    /\ pc' = "loop"
    /\ UNCHANGED <<input, prompt_obj, model_name, loaded, log, raised,
                   prompts, builds, prompts_file, rowVars, anaVars, valVars>>

\* the next call dispatched without waiting for the one in flight
StartCall_without_waiting ==
    /\ pc \in {"loop", "calling"}
    /\ input # <<>>
    /\ prompt_obj' = Head(input)
    /\ input' = Tail(input)
    /\ loaded' = Append(loaded, Head(input))
    /\ pc' = "calling"
    /\ UNCHANGED <<model_name, out_f, log, raised,
                   prompts, builds, prompts_file, rowVars, anaVars, valVars>>

\* load_prompts yields the next prompt and call_llm is entered
StartCall ==
    /\ pc = "loop"
    /\ input # <<>>
    /\ prompt_obj' = Head(input)
    /\ input' = Tail(input)
    /\ loaded' = Append(loaded, Head(input))
    /\ pc' = "calling"
    /\ UNCHANGED <<model_name, out_f, log, raised,
                   prompts, builds, prompts_file, rowVars, anaVars, valVars>>

\* call_llm returns: the result is written and logged
CallReturns ==
    /\ pc = "calling"
    /\ \E response_text \in ReplyTexts :
         /\ out_f' = out_f \o Dumps(ResultOf(prompt_obj, prompt_obj["question"], model_name,
                                             response_text), ResultFields) \o <<LF>>
         /\ log' = Append(log, [prompt |-> prompt_obj, outcome |-> "text",
                                text |-> response_text])
    /\ pc' = "loop"
    /\ UNCHANGED <<input, prompt_obj, model_name, loaded, raised,
                   prompts, builds, prompts_file, rowVars, anaVars, valVars>>

\* the skip written as break
CallNotImplemented_break ==
    /\ pc = "calling"
    /\ log' = Append(log, [prompt |-> prompt_obj, outcome |-> "skip", text |-> None])
    /\ pc' = "done"
    /\ UNCHANGED <<input, prompt_obj, model_name, out_f, loaded, raised,
                   prompts, builds, prompts_file, rowVars, anaVars, valVars>>

\* call_llm raises NotImplementedError: [SKIP] is printed, continue
CallNotImplemented ==
    /\ pc = "calling"
    /\ log' = Append(log, [prompt |-> prompt_obj, outcome |-> "skip", text |-> None])
    /\ pc' = "loop"
    /\ UNCHANGED <<input, prompt_obj, model_name, out_f, loaded, raised,
                   prompts, builds, prompts_file, rowVars, anaVars, valVars>>

\* the handler written as `except Exception`: any failure is a skip
CallFails_swallowed ==
    /\ pc = "calling"
    /\ log' = Append(log, [prompt |-> prompt_obj, outcome |-> "error", text |-> None])
    /\ pc' = "loop"
    /\ UNCHANGED <<input, prompt_obj, model_name, out_f, loaded, raised,
                   prompts, builds, prompts_file, rowVars, anaVars, valVars>>

\* call_llm raises anything else: no handler, the exception leaves run_experiment
\* (the with block closes the file)
CallFails ==
    /\ pc = "calling"
    /\ log' = Append(log, [prompt |-> prompt_obj, outcome |-> "error", text |-> None])
    /\ raised' = "Exception"
    /\ pc' = "aborted"
    /\ UNCHANGED <<input, prompt_obj, model_name, out_f, loaded,
                   prompts, builds, prompts_file, rowVars, anaVars, valVars>>

\* load_prompts is exhausted: the file is closed and run_experiment returns
EndOfPrompts ==
    /\ pc = "loop"
    /\ input = <<>>
    /\ pc' = "done"
    /\ UNCHANGED <<input, prompt_obj, model_name, out_f, loaded, log, raised,
                   prompts, builds, prompts_file, rowVars, anaVars, valVars>>

NextRun ==
    OpenResults \/ StartCall \/ CallReturns \/ CallNotImplemented \/ CallFails \/ EndOfPrompts

SpecRun == InitRun /\ [][NextRun]_vars

-----------------------------------------------------------------------------
(* Claims about the runner (SpecRun) *)

\* the records of results.jsonl, read back
ResultsWritten == load_results(out_f)

Answered == SelectSeq(log, LAMBDA e : e.outcome = "text")

\* the record the runner owes an answered prompt
OwedRecord(e) ==
    [ k \in Range(ResultFields) |->
        CASE k = "prompt" -> e.prompt["question"]
          [] k = "model_name" -> S(model_name)
          [] k = "response" -> e.text
          [] OTHER -> e.prompt[k] ]

\* the prompts whose call has ended, in the order they were read
Handled == IF pc = "calling" THEN SubSeq(loaded, 1, Len(loaded) - 1) ELSE loaded

\* C3: when every call returns text or signals not-implemented, the records
\* written are exactly one per prompt whose call returned text and none for a
\* skipped prompt, in the order of the prompts, each with the prompt's prompt_id,
\* hypothesis and condition, its question as prompt, the model name and the
\* returned text unchanged; a skip does not keep later prompts from being processed.
C3_OneRecordPerAnswer ==
    (pc # "open" /\ \A i \in 1..Len(log) : log[i].outcome # "error") =>
        /\ ResultsWritten.exc = NoError
        /\ ResultsWritten.yielded = [ i \in 1..Len(Answered) |-> OwedRecord(Answered[i]) ]
        /\ [ i \in 1..Len(log) |-> log[i].prompt ] = Handled
        /\ pc # "aborted"
        /\ pc = "done" => input = <<>>

\* three prompts: answered, skipped, answered; two records, in that order
C3_Witness ==
    /\ pc = "done"
    /\ Len(log) = 3
    /\ log[1].outcome = "text" /\ log[2].outcome = "skip" /\ log[3].outcome = "text"
    /\ log[1].text # log[3].text
    /\ log[1].prompt # log[3].prompt
    /\ Len(ResultsWritten.yielded) = 2
    /\ ResultsWritten.yielded[1]["response"] = log[1].text
    /\ ResultsWritten.yielded[2]["response"] = log[3].text

\* C4: a call that fails with anything but not-implemented aborts the run at that
\* prompt: the failure propagates, no record is written for that prompt, and no
\* call is made and no record written for a later prompt.
C4_FailFast ==
    /\ \A i \in 1..Len(log) :
         log[i].outcome = "error" =>
             /\ i = Len(log)
             /\ pc = "aborted"
             /\ raised # NoError
             /\ ~ ENABLED NextRun
             /\ ResultsWritten.yielded = [ j \in 1..Len(Answered) |-> OwedRecord(Answered[j]) ]
             /\ Len(loaded) = Len(log)
    /\ pc = "aborted" => (log # <<>> /\ log[Len(log)].outcome = "error")

\* the second of three prompts fails after the first was answered
C4_Witness ==
    /\ pc = "aborted"
    /\ Len(log) = 2
    /\ log[1].outcome = "text"
    /\ log[2].outcome = "error"
    /\ Len(input) = 1
    /\ Len(ResultsWritten.yielded) = 1

\* completion calls entered and not yet ended
InFlight == Len(loaded) - Len(log)

\* C12: the runner processes the prompts strictly one after the other: at most
\* one completion call is in flight at any time, and the call for a prompt is
\* started only when the call of every earlier prompt has ended and its outcome
\* has been handled (its record written, or its skip logged).
C12_OneCallAtATime ==
    /\ InFlight \in {0, 1}
    /\ InFlight = 1 <=> pc = "calling"
    /\ pc = "calling" =>
         /\ prompt_obj = loaded[Len(loaded)]
         /\ \A i \in 1..Len(log) :
              /\ log[i].prompt = loaded[i]
              /\ log[i].outcome \in {"text", "skip"}
         /\ ResultsWritten.exc = NoError
         /\ ResultsWritten.yielded = [ i \in 1..Len(Answered) |-> OwedRecord(Answered[i]) ]

\* the third call is in flight; the first was answered and the second skipped
C12_Witness ==
    /\ pc = "calling"
    /\ Len(loaded) = 3
    /\ Len(log) = 2
    /\ log[1].outcome = "text" /\ log[2].outcome = "skip"
    /\ Len(ResultsWritten.yielded) = 1
    /\ prompt_obj = loaded[3]

-----------------------------------------------------------------------------
(* SpecRead: the three passes over an input file, line by line.  load_prompts *)
(* and load_results are generators: each pass asks for the next record only   *)
(* when it is done with the previous one, and an exception raised inside the  *)
(* generator leaves the loop and the function.  The runner's pass is the one  *)
(* with a prompts file; the classifier and the validator read results.jsonl.  *)

MaxLines == 3

\* the generator resumed: blank lines are passed over, the next line is decoded
RECURSIVE NextRecord(_)
NextRecord(lines) ==
    IF lines = <<>> THEN [kind |-> "StopIteration", val |-> None, rest |-> <<>>]
    ELSE IF IsBlank(Head(lines)) THEN NextRecord(Tail(lines))
    ELSE IF Loads(Head(lines)).exc # NoError
         THEN [kind |-> Loads(Head(lines)).exc, val |-> None, rest |-> Tail(lines)]
         ELSE [kind |-> "yield", val |-> Loads(Head(lines)).val, rest |-> Tail(lines)]

\* lines that hold no record: a blank line (passed over), an object cut short
\* with no line end, an object followed by more, an empty object, a bare null
BlankLine == <<" ", LF>>
CutLine == <<"{", QUOTE, "prompt_id", QUOTE, ":", " ", QUOTE, "p1", QUOTE, ",", " ">>
ExtraLine == <<"{", "}", " ", "oops", LF>>
EmptyObjectLine == <<"{", "}", LF>>
NullLine == <<"null", LF>>

\* prompt records, the last with NaN where its hypothesis should be
ReadPrompts ==
    { asdict([ prompt_id |-> <<"p1">>, hypothesis |-> <<"H1_framing_primary_scorer">>,
               condition |-> <<"neutral">>, question |-> <<"Why", "?", LF>>,
               notes |-> <<>> ]),
      ("hypothesis" :> F("NaN"))
      @@ asdict([ prompt_id |-> <<"p2">>, hypothesis |-> <<>>,
                  condition |-> <<"neutral">>, question |-> <<"How", "?">>,
                  notes |-> <<>> ]) }

PromptLines ==
    { Dumps(d, PromptSpecFields) \o <<LF>> : d \in ReadPrompts }
    \cup {BlankLine, CutLine, ExtraLine, EmptyObjectLine, NullLine}

\* result records: one with a label and an issue, one with NaN for its
\* hypothesis, one with null for its response
ReadResults ==
    { RowOf(S(<<"p1">>), H2, S(<<"neutral">>), S(<<"Elite", " ", "defender", "Spacing">>)),
      RowOf(S(<<"p2">>), F("NaN"), S(<<"neutral">>), S(<<"developing">>)),
      RowOf(S(<<"p3">>), H1, S(<<"neutral">>), None) }

ResultLines ==
    { Dumps(d, ResultFields) \o <<LF>> : d \in ReadResults }
    \cup {BlankLine, CutLine, ExtraLine, EmptyObjectLine, NullLine}

FilesOf(pool) == { Flatten(l) : l \in ListsUpTo(pool, MaxLines) }

InitRead ==
    /\ \/ /\ pc = "open"
          /\ prompts_file \in FilesOf(PromptLines) \ {<<>>}
          /\ input = SplitLines(prompts_file)
          /\ out_f \in { <<>>, <<"{", "}", LF, "stale">> }
          /\ model_name = <<"YOUR_MODEL_NAME">>
       \/ /\ pc \in {"analyze", "validate"}
          /\ prompts_file = <<>>
          /\ out_f \in FilesOf(ResultLines)
          /\ input = SplitLines(out_f)
          /\ model_name = <<>>
    /\ prompt_obj = EmptyDict
    /\ loaded = <<>>
    /\ log = <<>>
    /\ raised = NoError
    /\ prompts = <<>> /\ builds = <<>>
    /\ IdleRow /\ IdleAna /\ IdleVal

\* run_experiment's `for prompt_obj in load_prompts(...)`: the next record, its
\* question, and call_llm entered; or the end of the file; or what was raised
NextPrompt ==
    /\ pc = "loop"
    /\ LET n == NextRecord(input) IN
         /\ input' = n.rest
         /\ CASE n.kind = "StopIteration" ->
                   /\ pc' = "done"
                   /\ UNCHANGED <<prompt_obj, loaded, raised>>
              [] n.kind = "yield" ->
                   /\ prompt_obj' = n.val
                   /\ loaded' = Append(loaded, n.val)
                   /\ IF ~ IsDict(n.val)
                      THEN raised' = "TypeError" /\ pc' = "aborted"
                      ELSE IF "question" \notin DOMAIN n.val
                      THEN raised' = "KeyError" /\ pc' = "aborted"
                      ELSE pc' = "calling" /\ UNCHANGED raised
              [] OTHER ->
                   /\ raised' = n.kind
                   /\ pc' = "aborted"
                   /\ UNCHANGED <<prompt_obj, loaded>>
    /\ UNCHANGED <<model_name, out_f, log, prompts, builds, prompts_file,
                   rowVars, anaVars, valVars>>

\* analyze_bias's `for row in load_results(path)` and its body; at the end of
\* the file, the summary
AnalyzeLine ==
    /\ pc = "analyze"
    /\ LET n == NextRecord(input) IN
         /\ input' = n.rest
         /\ CASE n.kind = "StopIteration" ->
                   /\ report' = Report(counts)
                   /\ pc' = "done"
                   /\ UNCHANGED <<counts, processed, loaded, raised>>
              [] n.kind = "yield" ->
                   /\ loaded' = Append(loaded, n.val)
                   /\ IF ~ IsDict(n.val)
                      THEN /\ raised' = "AttributeError"
                           /\ pc' = "failed"
                           /\ UNCHANGED <<counts, processed>>
                      ELSE LET hyp == Get(n.val, "hypothesis", None)
                               cond == Get(n.val, "condition", None)
                               lab == label_row(n.val)
                           IN  IF lab.exc = NoError
                               THEN /\ counts' = Increment(counts, hyp, cond, lab.val)
                                    /\ processed' =
                                         (<<hyp, cond>> :> (Get(processed, <<hyp, cond>>, 0) + 1))
                                         @@ processed
                                    /\ UNCHANGED <<pc, raised>>
                               ELSE /\ raised' = lab.exc
                                    /\ pc' = "failed"
                                    /\ UNCHANGED <<counts, processed>>
                   /\ UNCHANGED report
              [] OTHER ->
                   /\ raised' = n.kind
                   /\ pc' = "failed"
                   /\ UNCHANGED <<counts, processed, report, loaded>>
    /\ UNCHANGED <<prompts, builds, prompts_file, prompt_obj, model_name, out_f, log,
                   rowVars, valVars>>

\* run_validation's `for row in load_results(results_path)` and total += 1; at
\* the end of the file, the summary
ReadResultLine ==
    /\ pc = "validate"
    /\ LET n == NextRecord(input) IN
         /\ input' = n.rest
         /\ CASE n.kind = "StopIteration" ->
                   /\ pc' = "done"
                   /\ UNCHANGED <<row, total, loaded, raised>>
              [] n.kind = "yield" ->
                   /\ row' = n.val
                   /\ loaded' = Append(loaded, n.val)
                   /\ total' = total + 1
                   /\ IF ~ IsDict(n.val)
                      THEN raised' = "AttributeError" /\ pc' = "failed"
                      ELSE pc' = "validating" /\ UNCHANGED raised
              [] OTHER ->
                   /\ raised' = n.kind
                   /\ pc' = "failed"
                   /\ UNCHANGED <<row, total, loaded>>
    /\ UNCHANGED <<prompts, builds, prompts_file, prompt_obj, model_name, out_f, log,
                   GROUND_TRUTH, label, issues, with_issues, checked, anaVars>>

NextRead ==
    \/ OpenResults \/ NextPrompt \/ CallReturns \/ CallNotImplemented \/ CallFails
    \/ AnalyzeLine
    \/ ReadResultLine \/ CheckResult

SpecRead == InitRead /\ [][NextRead]_vars

-----------------------------------------------------------------------------
(* Claims about the readers (SpecRead) *)

\* the file the pass reads, and its non-blank lines
InputFile == IF prompts_file # <<>> THEN prompts_file ELSE out_f

NonBlank(lines) == SelectSeq(lines, LAMBDA l : ~ IsBlank(l))

\* the decoded value holds one of the constants that JSON does not have
HasNonJSONConstant(v) ==
    IF IsDict(v) THEN \E k \in DOMAIN v : v[k].t = "float" ELSE v.t = "float"

\* the line is a JSON text: the decoder takes it, and not for such a constant
IsValidJSON(line) == Loads(line).exc = NoError /\ ~ HasNonJSONConstant(Loads(line).val)

\* the pass stops at the first of the non-blank lines numbered in bad: no record
\* of that line or a later one is called for, counted or validated, the pass
\* does not complete, and once the line is read the decoder's error has ended
\* the pass there
AbortsAtFirst(bad) ==
    bad # {} =>
        LET b == CHOOSE i \in bad : \A j \in bad : i <= j
            after == Len(NonBlank(SplitLines(InputFile))) - b
        IN  /\ Len(log) < b
            /\ SumValues(processed) < b
            /\ Len(checked) < b
            /\ pc # "done"
            /\ Len(NonBlank(input)) <= after =>
                 /\ Len(NonBlank(input)) = after
                 /\ raised = "JSONDecodeError"
                 /\ pc \in {"aborted", "failed"}
                 /\ ~ ENABLED NextRead

\* the same for the lines json.loads rejects
RejectedLineAborts ==
    LET nb == NonBlank(SplitLines(InputFile))
    IN  AbortsAtFirst({ i \in 1..Len(nb) : Loads(nb[i]).exc # NoError })

\* a rejected line has been read after a record was handled
RejectedLineReached ==
    /\ raised = "JSONDecodeError"
    /\ Len(loaded) = 1
    /\ Len(NonBlank(input)) = 1

\* C11: when a non-blank line of the input file is not valid JSON, the error
\* propagates and aborts the pass at that line in all three readers: no record
\* on a later line is processed (no completion call, no count, no validation),
\* and the line is neither skipped nor recovered.
C11_MalformedLineAborts ==
    LET nb == NonBlank(SplitLines(InputFile))
    IN  AbortsAtFirst({ i \in 1..Len(nb) : ~ IsValidJSON(nb[i]) })
====
